---------------------------- MODULE Spec2Model ----------------------------
(***************************************************************************)
(* VivyTerm/ghostty-bridging-header.h, read the way a C / Objective-C      *)
(* preprocessor reads it.                                                  *)
(*                                                                         *)
(* The header is modelled line by line (Header).  A translation unit       *)
(* includes files at its top level (TUDirective); when the file is the     *)
(* bridging header the preprocessor walks its 21 lines, one action per     *)
(* kind of line.  The vendor headers (ghostty.h, libssh2.h,                *)
(* libssh2_sftp.h, ghostty/vt.h) are not part of the repository slice:     *)
(* entering one is recorded, its contents are not interpreted.             *)
(***************************************************************************)
EXTENDS Naturals, Sequences, FiniteSets

VARIABLES
    pc,        \* 0: at the top level of the translation unit; n >= 1: about to read line n of the bridging header
    macros,    \* the macros currently defined
    entered,   \* the files entered so far, in order: [file, by], by \in {"tu", "bridge"}
    imported,  \* the files marked include-once by a #import
    emitted,   \* the tokens the bridging header's own lines put into the translation unit
    trace,     \* the directives the bridging header executed in its current (or last) processing
    pass,      \* how many times the bridging header has been entered
    tu         \* how many top-level inclusion directives the translation unit has issued

vars == <<pc, macros, entered, imported, emitted, trace, pass, tu>>

\* The translation units explored issue at most this many top-level inclusions.
MaxTUDirectives == 3

Guard == "ghostty_bridging_header_h"

Bridge == "ghostty-bridging-header.h"
GhosttyH == "ghostty.h"
VtH == "ghostty/vt.h"
Libssh2H == "libssh2.h"
SftpH == "libssh2_sftp.h"

VendorHeaders == {GhosttyH, Libssh2H, SftpH}
Files == VendorHeaders \cup {VtH, Bridge}
Modes == {"include", "import"}

Comment == [kind |-> "comment", arg |-> "", tokens |-> <<>>]
Blank == [kind |-> "blank", arg |-> "", tokens |-> <<>>]
Directive(k, a) == [kind |-> k, arg |-> a, tokens |-> <<>>]
Text(t) == [kind |-> "text", arg |-> "", tokens |-> t]

\* A defect: the #define spells the guard differently from the #ifndef.
HeaderGuardTypo ==
    << Comment, Comment, Comment, Comment, Comment, Comment, Blank,
       Directive("ifndef", Guard),
       Directive("define", "ghostty_bridging_header_H"),
       Blank, Comment, Comment, Comment,
       Directive("import", GhosttyH),
       Blank, Comment, Comment,
       Directive("include", Libssh2H),
       Directive("include", SftpH),
       Blank,
       Directive("endif", "") >>

\* A defect: the SFTP header is not included.
HeaderNoSftp ==
    << Comment, Comment, Comment, Comment, Comment, Comment, Blank,
       Directive("ifndef", Guard),
       Directive("define", Guard),
       Blank, Comment, Comment, Comment,
       Directive("import", GhosttyH),
       Blank, Comment, Comment,
       Directive("include", Libssh2H),
       Blank,
       Blank,
       Directive("endif", "") >>

\* A defect: the header declares something of its own.
HeaderOwnDecl ==
    << Comment, Comment, Comment, Comment, Comment, Comment, Blank,
       Directive("ifndef", Guard),
       Directive("define", Guard),
       Text(<<"typedef", "void", "*", "vvterm_handle", ";">>),
       Comment, Comment, Comment,
       Directive("import", GhosttyH),
       Blank, Comment, Comment,
       Directive("include", Libssh2H),
       Directive("include", SftpH),
       Blank,
       Directive("endif", "") >>

\* A defect: libssh2.h is included a second time on line 20.
HeaderExtraInclude ==
    << Comment, Comment, Comment, Comment, Comment, Comment, Blank,
       Directive("ifndef", Guard),
       Directive("define", Guard),
       Blank, Comment, Comment, Comment,
       Directive("import", GhosttyH),
       Blank, Comment, Comment,
       Directive("include", Libssh2H),
       Directive("include", SftpH),
       Directive("include", Libssh2H),
       Directive("endif", "") >>

\* A defect: ghostty/vt.h is included after ghostty.h, against the note on line 13.
HeaderWithVt ==
    << Comment, Comment, Comment, Comment, Comment, Comment, Blank,
       Directive("ifndef", Guard),
       Directive("define", Guard),
       Blank, Comment, Comment, Comment,
       Directive("import", GhosttyH),
       Directive("include", VtH),
       Comment, Comment,
       Directive("include", Libssh2H),
       Directive("include", SftpH),
       Blank,
       Directive("endif", "") >>

\* A defect: the two libssh2 includes are swapped.
HeaderSftpFirst ==
    << Comment, Comment, Comment, Comment, Comment, Comment, Blank,
       Directive("ifndef", Guard),
       Directive("define", Guard),
       Blank, Comment, Comment, Comment,
       Directive("import", GhosttyH),
       Blank, Comment, Comment,
       Directive("include", SftpH),
       Directive("include", Libssh2H),
       Blank,
       Directive("endif", "") >>

\* The 21 lines of ghostty-bridging-header.h.
Header ==
    << Comment, Comment, Comment, Comment, Comment, Comment,   \* 1-6
       Blank,                                                  \* 7
       Directive("ifndef", Guard),                             \* 8
       Directive("define", Guard),                             \* 9
       Blank,                                                  \* 10
       Comment, Comment, Comment,                              \* 11-13
       Directive("import", GhosttyH),                          \* 14
       Blank,                                                  \* 15
       Comment, Comment,                                       \* 16-17
       Directive("include", Libssh2H),                         \* 18
       Directive("include", SftpH),                            \* 19
       Blank,                                                  \* 20
       Directive("endif", "") >>                               \* 21

InHeader == pc \in 1..Len(Header)
Line == Header[pc]

\* The files entered so far: their declarations are visible to what follows.
Available == {entered[i].file : i \in 1..Len(entered)}

\* Whether an inclusion directive enters the file.  #import enters a file
\* only if it has not been entered before, and marks it include-once;
\* #include skips a file that a #import has marked include-once.
ShouldEnter(f, mode) ==
    IF mode = "import" THEN f \notin Available ELSE f \notin imported

\* The line of the #endif that closes the conditional group whose body
\* starts at line i, conditionals nested in the skipped group counted.
RECURSIVE SkipTo(_, _)
SkipTo(i, depth) ==
    IF i > Len(Header) THEN i
    ELSE IF Header[i].kind = "ifndef" THEN SkipTo(i + 1, depth + 1)
    ELSE IF Header[i].kind = "endif"
         THEN IF depth = 0 THEN i ELSE SkipTo(i + 1, depth - 1)
    ELSE SkipTo(i + 1, depth)

Init ==
    /\ pc = 0
    /\ macros = {}
    /\ entered = <<>>
    /\ imported = {}
    /\ emitted = <<>>
    /\ trace = <<>>
    /\ pass = 0
    /\ tu = 0

\* The translation unit includes or imports a file at its top level.
TUDirective(f, mode) ==
    /\ pc = 0
    /\ tu < MaxTUDirectives
    /\ tu' = tu + 1
    /\ imported' = IF mode = "import" THEN imported \cup {f} ELSE imported
    /\ IF ShouldEnter(f, mode)
       THEN /\ entered' = Append(entered, [file |-> f, by |-> "tu"])
            /\ IF f = Bridge
               THEN /\ pc' = 1
                    /\ pass' = pass + 1
                    /\ trace' = <<>>
               ELSE UNCHANGED <<pc, pass, trace>>
       ELSE UNCHANGED <<entered, pc, pass, trace>>
    /\ UNCHANGED <<macros, emitted>>

\* A comment, a blank line or plain text: its tokens (none for a comment or
\* a blank line) go to the translation unit.
Passthrough ==
    /\ InHeader
    /\ Line.kind \in {"comment", "blank", "text"}
    /\ emitted' = emitted \o Line.tokens
    /\ pc' = pc + 1
    /\ UNCHANGED <<macros, entered, imported, trace, pass, tu>>

\* #ifndef: read on when the macro is undefined, else skip to the #endif.
Ifndef ==
    /\ InHeader
    /\ Line.kind = "ifndef"
    /\ trace' = Append(trace, [kind |-> "ifndef", arg |-> Line.arg])
    /\ pc' = IF Line.arg \in macros THEN SkipTo(pc + 1, 0) ELSE pc + 1
    /\ UNCHANGED <<macros, entered, imported, emitted, pass, tu>>

\* #define
Define ==
    /\ InHeader
    /\ Line.kind = "define"
    /\ macros' = macros \cup {Line.arg}
    /\ trace' = Append(trace, [kind |-> "define", arg |-> Line.arg])
    /\ pc' = pc + 1
    /\ UNCHANGED <<entered, imported, emitted, pass, tu>>

\* #import / #include of a vendor header
Inclusion ==
    /\ InHeader
    /\ Line.kind \in Modes
    /\ trace' = Append(trace, [kind |-> Line.kind, arg |-> Line.arg])
    /\ imported' = IF Line.kind = "import" THEN imported \cup {Line.arg} ELSE imported
    /\ entered' = IF ShouldEnter(Line.arg, Line.kind)
                  THEN Append(entered, [file |-> Line.arg, by |-> "bridge"])
                  ELSE entered
    /\ pc' = pc + 1
    /\ UNCHANGED <<macros, emitted, pass, tu>>

\* #endif
Endif ==
    /\ InHeader
    /\ Line.kind = "endif"
    /\ trace' = Append(trace, [kind |-> "endif", arg |-> Line.arg])
    /\ pc' = pc + 1
    /\ UNCHANGED <<macros, entered, imported, emitted, pass, tu>>

\* End of the header: back to the translation unit.
EndOfFile ==
    /\ pc = Len(Header) + 1
    /\ pc' = 0
    /\ UNCHANGED <<macros, entered, imported, emitted, trace, pass, tu>>

Next ==
    \/ \E f \in Files, mode \in Modes : TUDirective(f, mode)
    \/ Passthrough
    \/ Ifndef
    \/ Define
    \/ Inclusion
    \/ Endif
    \/ EndOfFile

Spec == Init /\ [][Next]_vars

-----------------------------------------------------------------------------
(* Vocabulary of the properties. *)

\* Positions of `entered` that the bridging header's own directives added.
ByBridge == {i \in 1..Len(entered) : entered[i].by = "bridge"}

\* Positions of `trace` that are inclusion directives (#import or #include).
InclusionIdx == {i \in 1..Len(trace) : trace[i].kind \in Modes}

\* The files named by the inclusion directives executed in this processing.
InclusionArgs == {trace[i].arg : i \in InclusionIdx}

\* The bridging header has been processed to its end and control is back
\* in the translation unit.
Completed == pc = 0 /\ pass >= 1

Dir(k, a) == [kind |-> k, arg |-> a]

FirstPassTrace ==
    << Dir("ifndef", Guard), Dir("define", Guard), Dir("import", GhosttyH),
       Dir("include", Libssh2H), Dir("include", SftpH), Dir("endif", "") >>

LaterPassTrace == << Dir("ifndef", Guard), Dir("endif", "") >>

-----------------------------------------------------------------------------
\* C1: once the first processing of the header (guard undefined on entry)
\* has completed, its trace holds an inclusion directive for each of
\* ghostty.h, libssh2.h and libssh2_sftp.h, and each of the three files has
\* been entered in the translation unit, so their declarations are
\* available to the includer (and stay so after later inclusions).
C1_VendorHeadersAvailable ==
    /\ Completed => VendorHeaders \subseteq Available
    /\ (Completed /\ pass = 1) => VendorHeaders \subseteq InclusionArgs

\* The first processing is complete and all three vendor headers were
\* entered through the bridging header itself.
C1_Witness ==
    /\ Completed
    /\ pass = 1
    /\ VendorHeaders = {entered[i].file : i \in ByBridge}

\* C2: the header has no surface of its own: its lines put no token into
\* the translation unit, the only macro it defines is the guard, and its
\* conditional is closed when the file ends (no diagnostic from this file).
C2_NoOwnSurface ==
    /\ emitted = <<>>
    /\ macros \subseteq {Guard}
    /\ \A i \in 1..Len(trace) : trace[i].kind = "define" => trace[i].arg = Guard
    /\ pc \in 0..(Len(Header) + 1)
    /\ (pc = Len(Header) + 1) =>
          Cardinality({i \in 1..Len(trace) : trace[i].kind = "ifndef"})
             = Cardinality({i \in 1..Len(trace) : trace[i].kind = "endif"})

\* A processing that defined the guard and entered vendor headers is over.
C2_Witness ==
    /\ Completed
    /\ Guard \in macros
    /\ ByBridge # {}
    /\ Len(trace) > 0

\* C3 as stated: one complete (first) processing executes exactly two
\* inclusion directives and nothing else: no macro definition, no conditional.
C3_TwoInclusionsOnly ==
    (Completed /\ pass = 1) =>
        /\ Cardinality(InclusionIdx) = 2
        /\ \A i \in 1..Len(trace) : trace[i].kind \in Modes

\* C3 amended: the first complete processing executes exactly #ifndef guard,
\* #define guard, #import ghostty.h, #include libssh2.h, #include
\* libssh2_sftp.h, #endif, in that order: three inclusions, one macro
\* definition, one conditional.  Every later complete processing executes
\* only the #ifndef and its #endif.
C3_ThreeInclusionsGuarded ==
    /\ (Completed /\ pass = 1) => trace = FirstPassTrace
    /\ (Completed /\ pass >= 2) => trace = LaterPassTrace

\* A first processing that executed three inclusion directives is complete.
C3_Witness ==
    /\ Completed
    /\ pass = 1
    /\ Cardinality(InclusionIdx) = 3

\* C4: whatever the bridging header includes is one of ghostty.h, libssh2.h,
\* libssh2_sftp.h: no inclusion directive it executes names ghostty/vt.h,
\* and no file it enters is ghostty/vt.h, after any number of inclusions.
C4_NeverIncludesVt ==
    /\ InclusionArgs \subseteq VendorHeaders
    /\ \A i \in ByBridge : entered[i].file \in VendorHeaders

\* The header has been included three times and has entered vendor headers.
C4_Witness ==
    /\ pc = 0
    /\ pass = 3
    /\ ByBridge # {}

C5_State ==
    /\ pass = 0 => Guard \notin macros
    /\ Completed => Guard \in macros
    /\ \A f \in VendorHeaders :
          Cardinality({i \in ByBridge : entered[i].file = f}) <= 1

C5_Step ==
    /\ Guard \in macros => Guard \in macros'
    /\ (pass >= 2 /\ pc # 0) =>
          /\ macros' = macros
          /\ entered' = entered
          /\ imported' = imported
          /\ emitted' = emitted

\* C5: inclusion is idempotent.  The guard is undefined before the first
\* inclusion, defined once a processing has completed and never undefined
\* again; no step of a second or later processing changes the macros, the
\* files entered, the include-once marks or the emitted tokens; and each
\* vendor header is entered through the bridging header at most once.
C5_Idempotent == [](C5_State) /\ [][C5_Step]_vars

\* A second processing has completed after a first one that entered
\* vendor headers.
C5_Witness ==
    /\ pc = 0
    /\ pass = 2
    /\ ByBridge # {}
    /\ trace = LaterPassTrace

\* C6: within a processing, every inclusion directive comes after the
\* #define of the guard, the one of libssh2.h after the one of ghostty.h and
\* the one of libssh2_sftp.h after the one of libssh2.h; and whenever the
\* bridging header enters a file the guard is defined, ghostty.h has been
\* entered before libssh2.h and libssh2.h before libssh2_sftp.h.
C6_InclusionOrder ==
    /\ \A i \in InclusionIdx :
          /\ \E j \in 1..(i - 1) : trace[j] = Dir("define", Guard)
          /\ trace[i].arg = Libssh2H =>
                \E j \in InclusionIdx : j < i /\ trace[j].arg = GhosttyH
          /\ trace[i].arg = SftpH =>
                \E j \in InclusionIdx : j < i /\ trace[j].arg = Libssh2H
    /\ \A i \in ByBridge :
          /\ Guard \in macros
          /\ entered[i].file = Libssh2H =>
                \E j \in 1..(i - 1) : entered[j].file = GhosttyH
          /\ entered[i].file = SftpH =>
                \E j \in 1..(i - 1) : entered[j].file = Libssh2H

\* The first processing has just entered libssh2_sftp.h, after ghostty.h
\* and libssh2.h, and has not yet reached its #endif.
C6_Witness ==
    /\ InHeader
    /\ pass = 1
    /\ Len(entered) >= 4
    /\ entered[Len(entered)] = [file |-> SftpH, by |-> "bridge"]
    /\ entered[Len(entered) - 1] = [file |-> Libssh2H, by |-> "bridge"]
    /\ entered[Len(entered) - 2] = [file |-> GhosttyH, by |-> "bridge"]

=============================================================================
